---- MODULE Spec2Model ----
(***************************************************************************)
(* golog: the leveled logger (logger.go), its formatters (formatter.go)    *)
(* and the size-based rotator (rotator.go), as a state machine.            *)
(*                                                                         *)
(* Goroutines call the log wrappers and Close on one shared Logger; every  *)
(* statement of Logger.log, Rotator.RotateIfNeeded and Logger.Close that   *)
(* touches the mutex, the file handle or the file system is one step.      *)
(* File-system calls may fail (at most MaxFaults times in a run).          *)
(***************************************************************************)
EXTENDS Integers, Sequences, FiniteSets

-----------------------------------------------------------------------------
(* Bounds of the model *)

\* log calls admitted and Close calls made in a run
MaxCalls == 2
\* Loggers constructed in a run
MaxLoggers == 2
\* injected file-system failures in a run
MaxFaults == 1
\* the wall clock (seconds) runs from 0 to MaxTime
MaxTime == 1
\* model bytes per configured megabyte (the code's 1024*1024, scaled down)
BytesPerMB == 4

\* the goroutines sharing the Logger
Procs == {"g1", "g2"}

-----------------------------------------------------------------------------
(* LogLevel *)

TRACE == 0
DEBUG == 1
INFO == 2
WARN == 3
ERROR == 4
FATAL == 5

LevelString(l) ==
    <<"TRACE", "DEBUG", "INFO", "WARN", "ERROR", "FATAL">>[l + 1]

-----------------------------------------------------------------------------
(* Inputs *)

\* Config values the runs are drawn from
ConfigLevels == {INFO}
ConfigFormats == {"text", "json"}
ConfigMaxSizeMB == {0, 1}
ConfigMaxBackups == {0, 1}

Config ==
    [Level : ConfigLevels, FilePath : {"", "app.log"}, LogToConsole : BOOLEAN,
     Format : ConfigFormats, MaxSizeMB : ConfigMaxSizeMB,
     MaxBackups : ConfigMaxBackups, Compress : BOOLEAN]

\* levels of the log wrappers called
CallLevels == {DEBUG, WARN}

\* a field map is a function from keys to values
KV(k, v) == [x \in {k} |-> v]
NoFields == [x \in {} |-> 0]

\* (msg, fields...) arguments of the log wrappers called
CallArgs ==
    { [msg |-> <<"x">>, fields |-> <<>>],
      [msg |-> <<"x", "x">>, fields |-> <<KV("k", 1), KV("k", 2)>>] }

-----------------------------------------------------------------------------
(* mergeFields and the formatters *)

Merge(a, b) ==
    [k \in DOMAIN a \cup DOMAIN b |-> IF k \in DOMAIN b THEN b[k] ELSE a[k]]

RECURSIVE mergeFields(_)
mergeFields(fields) ==
    IF fields = <<>> THEN NoFields
    ELSE Merge(mergeFields(SubSeq(fields, 1, Len(fields) - 1)), fields[Len(fields)])

\* "[ts] LEVEL msg" and, when there are fields, " map[...]", then "\n"
TextFormat(ts, level, msg, fields) ==
    LET base == <<ts, LevelString(level)>> \o msg
    IN  IF DOMAIN fields = {} THEN base \o <<"\n">>
        ELSE base \o <<fields, "\n">>

\* every key a JSON line can hold, in json.Marshal's (sorted) order
JSONKeys == <<"k", "level", "message", "timestamp">>

\* one JSON object: timestamp, level, message, then the fields over them
JSONFormat(ts, level, msg, fields) ==
    LET base == [x \in {"timestamp", "level", "message"} |->
                    CASE x = "timestamp" -> ts
                      [] x = "level" -> LevelString(level)
                      [] OTHER -> msg]
        logEntry == Merge(base, fields)
        keys == SelectSeq(JSONKeys, LAMBDA k : k \in DOMAIN logEntry)
    IN  <<"{">> \o [i \in 1..Len(keys) |-> <<keys[i], logEntry[keys[i]]>>]
               \o <<"}\n">>

Format(format, ts, level, msg, fields) ==
    IF format = "json" THEN JSONFormat(ts, level, msg, fields)
    ELSE TextFormat(ts, level, msg, fields)

-----------------------------------------------------------------------------
(* The file system: the base file and its rotated siblings *)

Base == <<"app.log">>
\* filePath.<timestamp> and filePath.<timestamp>.gz
BackupPath(t) == <<"app.log", t>>
GzPath(path) == path \o <<"gz">>

BackupNames == {BackupPath(t) : t \in 0..MaxTime}
                 \cup {GzPath(BackupPath(t)) : t \in 0..MaxTime}
Names == {Base} \cup BackupNames

NoFile == [exists |-> FALSE]
\* data: what was written, each line with the id of the call that wrote it;
\* gz: "no" (plain), "ok" (a complete gzip stream), "trunc" (a cut-off one)
NewFile(data, gz, mtime) ==
    [exists |-> TRUE, data |-> data, gz |-> gz, mtime |-> mtime]

RECURSIVE SumLen(_)
SumLen(data) ==
    IF data = <<>> THEN 0
    ELSE Len(data[1].text) + SumLen(Tail(data))

\* info.Size()
Size(f) == SumLen(f.data)

\* a pattern without the dot, filePath + "*", which matches the base file too
GlobWithBase(fsys) == {n \in Names : fsys[n].exists}

\* filepath.Glob(filePath + ".*")
Glob(fsys) == {n \in BackupNames : fsys[n].exists}

-----------------------------------------------------------------------------
(* State *)

VARIABLES
    cfg,        \* the Config every Logger of the run is built from
    logger,     \* the Logger's fields; file is "nil", "open" or "closed"
    fs,         \* the directory of the log file: name -> file
    mutex,      \* Logger.mutex: the goroutine holding it, or NoHolder
    pc,         \* where each goroutine is inside log or Close
    call,       \* the arguments and locals of each goroutine's current call
    console,    \* what fmt.Print wrote to stdout
    stderr,     \* what was reported on os.Stderr
    now,        \* the wall clock, in seconds
    mclock,     \* the file system's modification clock
    ncalls,     \* API calls made so far
    nloggers,   \* Loggers constructed so far
    faults,     \* file-system failures injected so far
    last,       \* the level of the log call made last
    order,      \* ids of the log calls, in the order they took the mutex
    emitted,    \* the lines of the admitted log calls that returned
    closeRet,   \* what each Close call on the current Logger returned
    rotLog,     \* the backups made by the rotations that returned no error
    exit        \* the status the process exited with, once it has: <<status>>

vars ==
    <<cfg, logger, fs, mutex, pc, call, console, stderr, now, mclock,
      ncalls, nloggers, faults, last, order, emitted, closeRet, rotLog,
      exit>>

\* the process has not exited
Running == <<>>
NoHolder == "none"
NoCall == [id |-> 0]
NoLevel == TRACE - 1
NoRotator == [set |-> FALSE]

\* time.Now() where a backup is named, in seconds: the second of the last
\* backup, or the one after it. (The clock advances in front of these reads
\* only; a line's timestamp is the second read last.)
TimeNow == {now} \cup (IF now < MaxTime THEN {now + 1} ELSE {})

\* whether the next file-system call may be made to fail
FailChoices == IF faults < MaxFaults THEN BOOLEAN ELSE {FALSE}
Count(b) == IF b THEN 1 ELSE 0

-----------------------------------------------------------------------------
(* Construction *)

NewRotator(filePath, maxSizeMB, maxBackups, compress) ==
    [set |-> TRUE, filePath |-> filePath, maxSize |-> maxSizeMB * BytesPerMB,
     maxBackups |-> maxBackups, compress |-> compress]

\* os.OpenFile(path, O_APPEND|O_CREATE|O_WRONLY): creates the file when missing
OpenFile(fsys, path, mtime) ==
    IF fsys[path].exists THEN fsys
    ELSE [fsys EXCEPT ![path] = NewFile(<<>>, "no", mtime)]

\* the Logger NewLogger(config) returns
NewLoggerOf(config) ==
    LET logToFile == config.FilePath # ""
    IN  [level |-> config.Level,
         logToFile |-> logToFile,
         logToConsole |-> config.LogToConsole,
         formatter |-> IF config.Format = "json" THEN "json" ELSE "text",
         file |-> IF logToFile THEN "open" ELSE "nil",
         filePath |-> IF logToFile THEN config.FilePath ELSE "",
         rotator |-> IF logToFile
                     THEN NewRotator(config.FilePath, config.MaxSizeMB,
                                     config.MaxBackups, config.Compress)
                     ELSE NoRotator]

Init ==
    /\ cfg \in Config
    /\ logger = NewLoggerOf(cfg)
    /\ fs = IF cfg.FilePath # ""
            THEN OpenFile([n \in Names |-> NoFile], Base, 1)
            ELSE [n \in Names |-> NoFile]
    /\ mutex = NoHolder
    /\ pc = [p \in Procs |-> "idle"]
    /\ call = [p \in Procs |-> NoCall]
    /\ console = <<>>
    /\ stderr = <<>>
    /\ now = 0
    /\ mclock = 1
    /\ ncalls = 0
    /\ nloggers = 1
    /\ faults = 0
    /\ last = NoLevel
    /\ order = <<>>
    /\ emitted = {}
    /\ closeRet = <<>>
    /\ rotLog = <<>>
    /\ exit = Running

\* The program constructs a Logger again over the same directory (a restart:
\* no goroutine is inside a call on the previous one).
NewLogger ==
    /\ nloggers < MaxLoggers
    /\ \A p \in Procs : pc[p] = "idle"
    /\ logger' = NewLoggerOf(cfg)
    /\ fs' = IF cfg.FilePath # "" THEN OpenFile(fs, Base, mclock + 1) ELSE fs
    /\ mclock' = mclock + 1
    /\ mutex' = NoHolder
    /\ nloggers' = nloggers + 1
    /\ closeRet' = <<>>
    /\ UNCHANGED <<cfg, exit, pc, call, console, stderr, now, ncalls, faults, last,
                   order, emitted, rotLog>>

-----------------------------------------------------------------------------
(* Logger.log *)

\* the admission test off by one level
RejectedOffByOne(level) == level + 1 < logger.level

\* if level < l.level { return }
Rejected(level) == level < logger.level

\* a Lock that does not wait
MutexIgnored == TRUE

\* a Lock that waits for g1 alone
MutexFreeOfFirst == mutex # "g1"

\* l.mutex.Lock() returns once no goroutine holds the mutex
MutexFree == mutex = NoHolder

\* a console that is printed to only while the file handle is open
ConsoleWithFile == logger.logToConsole /\ logger.file = "open"

\* if l.logToConsole { fmt.Print(message) }
ConsoleEnabled == logger.logToConsole

\* a return that leaves the mutex locked
UnlockMissing(p) == mutex' = mutex

\* defer l.mutex.Unlock()
Unlock(p) == mutex' = NoHolder

\* fmt.Fprintf(os.Stderr, "Failed to rotate log: %v\n", err)
Report(err) == stderr' = Append(stderr, <<"Failed to rotate log", err>>)

\* Trace/Debug/Info/Warn/Error(msg, fields...): the admission test of log.
\* A call that is turned away returns at once (it is not counted in ncalls).
LogEnter(p) ==
    /\ pc[p] = "idle"
    /\ ncalls < MaxCalls
    /\ \E level \in CallLevels, args \in CallArgs :
          /\ last' = level
          /\ IF Rejected(level)
             THEN UNCHANGED <<pc, call, ncalls>>
             ELSE /\ pc' = [pc EXCEPT ![p] = "lock"]
                  /\ call' = [call EXCEPT ![p] =
                        [id |-> ncalls + 1, level |-> level, msg |-> args.msg,
                         fields |-> mergeFields(args.fields), text |-> <<>>,
                         size |-> -1, newPath |-> <<>>, cleaned |-> "no",
                         err |-> "nil", wrote |-> "no", before |-> <<>>,
                         removed |-> {}]]
                  /\ ncalls' = ncalls + 1
    /\ UNCHANGED <<cfg, exit, logger, fs, mutex, console, stderr, now, mclock,
                   nloggers, faults, order, emitted, closeRet, rotLog>>

\* l.mutex.Lock(); message := l.formatter.Format(level, msg, fields);
\* if l.logToConsole { fmt.Print(message) }
LockAndPrint(p) ==
    /\ pc[p] = "lock"
    /\ MutexFree
    /\ mutex' = p
    /\ order' = Append(order, call[p].id)
    /\ LET message == Format(logger.formatter, now, call[p].level,
                             call[p].msg, call[p].fields)
       IN  /\ call' = [call EXCEPT ![p].text = message]
           /\ console' = IF ConsoleEnabled
                         THEN Append(console, [id |-> call[p].id,
                                               text |-> message])
                         ELSE console
    /\ pc' = [pc EXCEPT ![p] =
                IF logger.logToFile /\ logger.file # "nil"
                THEN (IF logger.rotator.set THEN "stat" ELSE "write")
                ELSE "return"]
    /\ UNCHANGED <<cfg, exit, logger, fs, stderr, now, mclock, ncalls, nloggers,
                   faults, last, emitted, closeRet, rotLog>>

\* l.file.WriteString(message): the error is dropped. (wrote records how the
\* call went: "ok", "closed" for a handle that is not open, "failed" for an
\* I/O error.)
WriteFile(p) ==
    /\ pc[p] = "write"
    /\ \E fail \in FailChoices :
          /\ faults' = faults + Count(fail)
          /\ IF logger.file = "open" /\ ~fail /\ fs[Base].exists
             THEN /\ fs' = [fs EXCEPT ![Base] =
                              NewFile(Append(@.data, [id |-> call[p].id,
                                                      text |-> call[p].text]),
                                      @.gz, mclock + 1)]
                  /\ mclock' = mclock + 1
                  /\ call' = [call EXCEPT ![p].wrote = "ok"]
             ELSE /\ call' = [call EXCEPT ![p].wrote =
                                 IF logger.file # "open" THEN "closed"
                                 ELSE "failed"]
                  /\ UNCHANGED <<fs, mclock>>
    /\ pc' = [pc EXCEPT ![p] = "return"]
    /\ UNCHANGED <<cfg, exit, logger, mutex, console, stderr, now, ncalls,
                   nloggers, last, order, emitted, closeRet, rotLog>>

\* log returns: the deferred Unlock runs. The call goes back to the wrapper
\* that made it; Fatal, the one wrapper passing FATAL, has os.Exit left to do.
LogReturn(p) ==
    /\ pc[p] = "return"
    /\ Unlock(p)
    /\ emitted' = emitted \cup {[id |-> call[p].id, text |-> call[p].text]}
    /\ IF call[p].level = FATAL
       THEN /\ pc' = [pc EXCEPT ![p] = "exit"]
            /\ UNCHANGED call
       ELSE /\ pc' = [pc EXCEPT ![p] = "idle"]
            /\ call' = [call EXCEPT ![p] = NoCall]
    /\ UNCHANGED <<cfg, exit, logger, fs, console, stderr, now, mclock, ncalls,
                   nloggers, faults, last, order, closeRet, rotLog>>

\* an os.Exit that does not wait for log to return
ExitsAtOnce(p) == pc[p] \in {"lock", "exit"}

\* Fatal reaches os.Exit(1) once l.log(FATAL, ...) has returned
LogReturned(p) == pc[p] = "exit"

\* Fatal(msg, fields...): l.log(FATAL, msg, mergeFields(fields))
Fatal(p) ==
    /\ pc[p] = "idle"
    /\ ncalls < MaxCalls
    /\ \E args \in CallArgs :
          /\ call' = [call EXCEPT ![p] =
                [id |-> ncalls + 1, level |-> FATAL, msg |-> args.msg,
                 fields |-> mergeFields(args.fields), text |-> <<>>,
                 size |-> -1, newPath |-> <<>>, cleaned |-> "no",
                 err |-> "nil", wrote |-> "no", before |-> <<>>,
                 removed |-> {}]]
    /\ last' = FATAL
    /\ pc' = [pc EXCEPT ![p] = IF Rejected(FATAL) THEN "exit" ELSE "lock"]
    /\ ncalls' = ncalls + 1
    /\ UNCHANGED <<cfg, exit, logger, fs, mutex, console, stderr, now, mclock,
                   nloggers, faults, order, emitted, closeRet, rotLog>>

\* os.Exit(1): the process ends, and every goroutine with it
Exit(p) ==
    /\ LogReturned(p)
    /\ exit' = <<1>>
    /\ pc' = [q \in Procs |-> IF q = p THEN "exited" ELSE "killed"]
    /\ UNCHANGED <<cfg, logger, fs, mutex, call, console, stderr, now, mclock,
                   ncalls, nloggers, faults, last, order, emitted, closeRet,
                   rotLog>>

-----------------------------------------------------------------------------
(* Rotator.RotateIfNeeded, called by log with l.file *)

\* the size test taking a file of exactly maxSize as below the limit
BelowOrAtLimit(size) == size <= logger.rotator.maxSize

\* a size test that never lets a call through without rotating
BelowLimitNever(size) == FALSE

\* a size test against twice the limit
BelowTwiceLimit(size) == size < 2 * logger.rotator.maxSize

\* if info.Size() < r.maxSize { return nil }
BelowLimit(size) == size < logger.rotator.maxSize

\* the failure of a step of RotateIfNeeded goes back to log, which reports it
\* and goes on to write
RotateFails(p, err) ==
    /\ Report(err)
    /\ call' = [call EXCEPT ![p].err = err]
    /\ pc' = [pc EXCEPT ![p] = "write"]

\* info, err := file.Stat()
Stat(p) ==
    /\ pc[p] = "stat"
    /\ \E fail \in FailChoices :
          /\ faults' = faults + Count(fail)
          /\ IF fail \/ logger.file # "open"
             THEN RotateFails(p, "failed to stat log file")
             ELSE /\ call' = [call EXCEPT ![p].size = Size(fs[Base])]
                  /\ pc' = [pc EXCEPT ![p] =
                              IF BelowLimit(Size(fs[Base])) THEN "write"
                              ELSE "close"]
                  /\ UNCHANGED stderr
    /\ UNCHANGED <<cfg, exit, logger, fs, mutex, console, now, mclock, ncalls,
                   nloggers, last, order, emitted, closeRet, rotLog>>

\* file.Close(): the handle is closed whether or not close reports an error
CloseForRotation(p) ==
    /\ pc[p] = "close"
    /\ \E fail \in FailChoices :
          /\ faults' = faults + Count(fail)
          /\ IF fail \/ logger.file # "open"
             THEN RotateFails(p, "failed to close log file")
             ELSE /\ pc' = [pc EXCEPT ![p] = "rename"]
                  /\ UNCHANGED <<stderr, call>>
    /\ logger' = [logger EXCEPT !.file = "closed"]
    /\ UNCHANGED <<cfg, exit, fs, mutex, console, now, mclock, ncalls,
                   nloggers, last, order, emitted, closeRet, rotLog>>

\* newPath := filePath + "." + now; os.Rename(r.filePath, newPath)
Rename(p) ==
    /\ pc[p] = "rename"
    /\ \E fail \in FailChoices, t \in TimeNow :
          /\ faults' = faults + Count(fail)
          /\ now' = t
          /\ IF fail \/ ~fs[Base].exists
             THEN /\ RotateFails(p, "failed to rename log file")
                  /\ UNCHANGED fs
             ELSE /\ fs' = [fs EXCEPT ![Base] = NoFile,
                                      ![BackupPath(t)] = fs[Base]]
                  /\ call' = [call EXCEPT ![p].newPath = BackupPath(t),
                                          ![p].before = fs[Base].data]
                  /\ pc' = [pc EXCEPT ![p] =
                              IF logger.rotator.compress THEN "compress"
                              ELSE "cleanup"]
                  /\ UNCHANGED stderr
    /\ UNCHANGED <<cfg, exit, logger, mutex, console, mclock, ncalls, nloggers,
                   last, order, emitted, closeRet, rotLog>>

\* What compressFile(filePath) can do to the file system, with the error it
\* returns: "open" fails before anything is created; "copy" fails in io.Copy,
\* leaving a cut-off .gz; "flush" fails in the deferred gz.Close/out.Close,
\* whose errors are dropped.
compressFile(fsys, filePath, how, mtime) ==
    CASE how = "open" -> [fs |-> fsys, err |-> TRUE]
      [] how = "copy" ->
            [fs |-> [fsys EXCEPT ![GzPath(filePath)] =
                        NewFile(fsys[filePath].data, "trunc", mtime)],
             err |-> TRUE]
      [] how = "flush" ->
            [fs |-> [fsys EXCEPT ![GzPath(filePath)] =
                        NewFile(fsys[filePath].data, "trunc", mtime)],
             err |-> FALSE]
      [] OTHER ->
            [fs |-> [fsys EXCEPT ![GzPath(filePath)] =
                        NewFile(fsys[filePath].data, "ok", mtime)],
             err |-> FALSE]

\* if r.compress { compressFile(newPath); os.Remove(newPath); newPath += ".gz" }
Compress(p) ==
    /\ pc[p] = "compress"
    /\ \E how \in (IF faults < MaxFaults THEN {"open", "copy", "flush", "remove"}
                   ELSE {}) \cup {"ok"} :
          LET res == compressFile(fs, call[p].newPath, how, mclock + 1)
          IN  /\ faults' = faults + Count(how # "ok")
              /\ IF res.err
                 THEN /\ RotateFails(p, "failed to compress log file")
                      /\ fs' = res.fs
                 ELSE /\ fs' = IF how = "remove" THEN res.fs
                               ELSE [res.fs EXCEPT ![call[p].newPath] = NoFile]
                      /\ call' = [call EXCEPT ![p].newPath = GzPath(@)]
                      /\ pc' = [pc EXCEPT ![p] = "cleanup"]
                      /\ UNCHANGED stderr
    /\ mclock' = mclock + 1
    /\ UNCHANGED <<cfg, exit, logger, mutex, console, now, ncalls, nloggers, last,
                   order, emitted, closeRet, rotLog>>

\* cleanupBackups keeping one file too many
cleanupKeepsOneMore(fsys, maxBackups, unstat, undel) ==
    LET files == Glob(fsys)
        fileInfos == files \ unstat
        Newest(K) == \A k \in K, d \in fileInfos \ K :
                         fsys[k].mtime >= fsys[d].mtime
        nkeep == IF Cardinality(fileInfos) < maxBackups + 1
                 THEN Cardinality(fileInfos) ELSE maxBackups + 1
    IN  IF Cardinality(files) <= maxBackups THEN {fsys}
        ELSE { [n \in Names |-> IF n \in (fileInfos \ K) \ undel THEN NoFile
                                ELSE fsys[n]] :
               K \in {K \in SUBSET fileInfos :
                         Cardinality(K) = nkeep /\ Newest(K)} }

\* cleanupBackups sorting oldest first
cleanupKeepsOldest(fsys, maxBackups, unstat, undel) ==
    LET files == Glob(fsys)
        fileInfos == files \ unstat
        Oldest(K) == \A k \in K, d \in fileInfos \ K :
                         fsys[k].mtime <= fsys[d].mtime
        nkeep == IF Cardinality(fileInfos) < maxBackups
                 THEN Cardinality(fileInfos) ELSE maxBackups
    IN  IF Cardinality(files) <= maxBackups THEN {fsys}
        ELSE { [n \in Names |-> IF n \in (fileInfos \ K) \ undel THEN NoFile
                                ELSE fsys[n]] :
               K \in {K \in SUBSET fileInfos :
                         Cardinality(K) = nkeep /\ Oldest(K)} }

\* The file systems cleanupBackups can leave: the files whose os.Stat fails
\* (unstat) are skipped, the rest is sorted newest first, everything past the
\* first maxBackups is removed, except where os.Remove fails (undel).
cleanupBackups(fsys, maxBackups, unstat, undel) ==
    LET files == Glob(fsys)
        fileInfos == files \ unstat
        Newest(K) == \A k \in K, d \in fileInfos \ K :
                         fsys[k].mtime >= fsys[d].mtime
        nkeep == IF Cardinality(fileInfos) < maxBackups
                 THEN Cardinality(fileInfos) ELSE maxBackups
    IN  IF Cardinality(files) <= maxBackups THEN {fsys}
        ELSE { [n \in Names |-> IF n \in (fileInfos \ K) \ undel THEN NoFile
                                ELSE fsys[n]] :
               K \in {K \in SUBSET fileInfos :
                         Cardinality(K) = nkeep /\ Newest(K)} }

\* r.cleanupBackups()
Cleanup(p) ==
    /\ pc[p] = "cleanup"
    /\ \E bad \in (IF faults < MaxFaults
                   THEN [what : {"stat", "remove"}, file : Glob(fs)] ELSE {})
                  \cup {[what |-> "none"]} :
          /\ faults' = faults + Count(bad.what # "none")
          /\ fs' \in cleanupBackups(fs, logger.rotator.maxBackups,
                        IF bad.what = "stat" THEN {bad.file} ELSE {},
                        IF bad.what = "remove" THEN {bad.file} ELSE {})
          /\ call' = [call EXCEPT ![p].cleaned =
                         IF bad.what = "none" THEN "yes" ELSE "in part",
                                   ![p].removed =
                         {n \in Names : fs[n].exists /\ ~fs'[n].exists}]
    /\ pc' = [pc EXCEPT ![p] = "reopen"]
    /\ UNCHANGED <<cfg, exit, logger, mutex, console, stderr, now, mclock, ncalls,
                   nloggers, last, order, emitted, closeRet, rotLog>>

\* file, err = os.OpenFile(r.filePath, ...); return nil. file is
\* RotateIfNeeded's own parameter, so the Logger's l.file stays the handle
\* that was closed.
Reopen(p) ==
    /\ pc[p] = "reopen"
    /\ \E fail \in FailChoices :
          /\ faults' = faults + Count(fail)
          /\ IF fail
             THEN /\ Report("failed to reopen log file")
                  /\ call' = [call EXCEPT ![p].err = "failed to reopen log file"]
                  /\ UNCHANGED <<fs, mclock, rotLog>>
             ELSE /\ fs' = OpenFile(fs, Base, mclock + 1)
                  /\ mclock' = mclock + 1
                  /\ rotLog' = Append(rotLog, [path |-> call[p].newPath,
                                                at |-> call[p].newPath[2]])
                  /\ UNCHANGED <<stderr, call>>
    /\ pc' = [pc EXCEPT ![p] = "write"]
    /\ UNCHANGED <<cfg, exit, logger, mutex, console, now, ncalls, nloggers, last,
                   order, emitted, closeRet>>

-----------------------------------------------------------------------------
(* Logger.Close *)

CloseEnter(p) ==
    /\ pc[p] = "idle"
    /\ ncalls < MaxCalls
    /\ ncalls' = ncalls + 1
    /\ pc' = [pc EXCEPT ![p] = "closelock"]
    /\ UNCHANGED <<cfg, exit, logger, fs, mutex, call, console, stderr, now, mclock,
                   nloggers, faults, last, order, emitted, closeRet, rotLog>>

\* l.mutex.Lock()
CloseLock(p) ==
    /\ pc[p] = "closelock"
    /\ MutexFree
    /\ mutex' = p
    /\ pc' = [pc EXCEPT ![p] = "closing"]
    /\ UNCHANGED <<cfg, exit, logger, fs, call, console, stderr, now, mclock, ncalls,
                   nloggers, faults, last, order, emitted, closeRet, rotLog>>

\* if l.file != nil { return l.file.Close() }; return nil
\* (os.File.Close on a closed handle returns an error)
CloseFile(p) ==
    /\ pc[p] = "closing"
    /\ \E fail \in FailChoices :
          /\ faults' = faults + Count(fail /\ logger.file = "open")
          /\ closeRet' = Append(closeRet,
                IF logger.file = "nil" THEN "nil"
                ELSE IF logger.file = "closed" \/ fail THEN "error"
                ELSE "nil")
    /\ logger' = [logger EXCEPT !.file = IF @ = "nil" THEN "nil" ELSE "closed"]
    /\ Unlock(p)
    /\ pc' = [pc EXCEPT ![p] = "idle"]
    /\ UNCHANGED <<cfg, exit, fs, call, console, stderr, now, mclock, ncalls,
                   nloggers, last, order, emitted, rotLog>>

-----------------------------------------------------------------------------
(* Logger.Rotate and openLogFile, of the logger.go that has them *)

\* NewLogger(config) of that logger.go: the file is opened by openLogFile
NewLoggerOpen(p) ==
    /\ nloggers < MaxLoggers
    /\ \A q \in Procs : pc[q] = "idle"
    /\ logger' = [NewLoggerOf(cfg) EXCEPT !.file = "nil"]
    /\ mutex' = NoHolder
    /\ nloggers' = nloggers + 1
    /\ closeRet' = <<>>
    /\ pc' = [pc EXCEPT ![p] = IF cfg.FilePath # "" THEN "newopen" ELSE "idle"]
    /\ UNCHANGED <<cfg, exit, fs, call, console, stderr, now, mclock, ncalls,
                   faults, last, order, emitted, rotLog>>

\* openLogFile(filePath): l.mutex.Lock(); defer l.mutex.Unlock();
\* os.OpenFile(...); l.file = file. Called by NewLogger and by Rotate.
openLogFile(p) ==
    /\ pc[p] \in {"newopen", "rotopen"}
    /\ MutexFree
    /\ fs' = OpenFile(fs, Base, mclock + 1)
    /\ mclock' = mclock + 1
    /\ logger' = [logger EXCEPT !.file = "open"]
    /\ mutex' = NoHolder
    /\ pc' = [pc EXCEPT ![p] = IF @ = "newopen" THEN "idle" ELSE "rotreturn"]
    /\ UNCHANGED <<cfg, exit, call, console, stderr, now, ncalls, nloggers,
                   faults, last, order, emitted, closeRet, rotLog>>

\* Rotate(): if !l.logToFile || l.file == nil { return nil }
RotateEnter(p) ==
    /\ pc[p] = "idle"
    /\ ncalls < MaxCalls
    /\ ncalls' = ncalls + 1
    /\ pc' = [pc EXCEPT ![p] =
                IF ~logger.logToFile \/ logger.file = "nil" THEN "idle"
                ELSE "rotlock"]
    /\ UNCHANGED <<cfg, exit, logger, fs, mutex, call, console, stderr, now,
                   mclock, nloggers, faults, last, order, emitted, closeRet,
                   rotLog>>

\* l.mutex.Lock(); defer l.mutex.Unlock()
RotateLock(p) ==
    /\ pc[p] = "rotlock"
    /\ MutexFree
    /\ mutex' = p
    /\ pc' = [pc EXCEPT ![p] = "rotclose"]
    /\ UNCHANGED <<cfg, exit, logger, fs, call, console, stderr, now, mclock,
                   ncalls, nloggers, faults, last, order, emitted, closeRet,
                   rotLog>>

\* if err := l.file.Close(); err != nil { return ... }
RotateClose(p) ==
    /\ pc[p] = "rotclose"
    /\ \E fail \in FailChoices :
          /\ faults' = faults + Count(fail)
          /\ pc' = [pc EXCEPT ![p] =
                      IF fail \/ logger.file # "open" THEN "rotreturn"
                      ELSE "rotrename"]
    /\ logger' = [logger EXCEPT !.file = "closed"]
    /\ UNCHANGED <<cfg, exit, fs, mutex, call, console, stderr, now, mclock,
                   ncalls, nloggers, last, order, emitted, closeRet, rotLog>>

\* newPath := l.filePath + "." + now; os.Rename(l.filePath, newPath);
\* return l.openLogFile(l.filePath)
RotateRename(p) ==
    /\ pc[p] = "rotrename"
    /\ \E fail \in FailChoices, t \in TimeNow :
          /\ faults' = faults + Count(fail)
          /\ now' = t
          /\ IF fail \/ ~fs[Base].exists
             THEN /\ pc' = [pc EXCEPT ![p] = "rotreturn"]
                  /\ UNCHANGED fs
             ELSE /\ fs' = [fs EXCEPT ![Base] = NoFile,
                                      ![BackupPath(t)] = fs[Base]]
                  /\ pc' = [pc EXCEPT ![p] = "rotopen"]
    /\ UNCHANGED <<cfg, exit, logger, mutex, call, console, stderr, mclock,
                   ncalls, nloggers, last, order, emitted, closeRet, rotLog>>

\* Rotate returns: its deferred Unlock runs
RotateReturn(p) ==
    /\ pc[p] = "rotreturn"
    /\ Unlock(p)
    /\ pc' = [pc EXCEPT ![p] = "idle"]
    /\ UNCHANGED <<cfg, exit, logger, fs, call, console, stderr, now, mclock,
                   ncalls, nloggers, faults, last, order, emitted, closeRet,
                   rotLog>>

-----------------------------------------------------------------------------
(* The specification *)

\* the steps of goroutine p
Step(p) ==
    \/ LogEnter(p)
    \/ LockAndPrint(p)
    \/ Stat(p)
    \/ CloseForRotation(p)
    \/ Rename(p)
    \/ Compress(p)
    \/ Cleanup(p)
    \/ Reopen(p)
    \/ WriteFile(p)
    \/ LogReturn(p)
    \/ CloseEnter(p)
    \/ CloseLock(p)
    \/ CloseFile(p)

\* Goroutines sharing one Logger
Next == \E p \in Procs : Step(p)

Spec == Init /\ [][Next]_vars

\* One goroutine, and the program run again and again over the same directory
NextRestart ==
    \/ \E p \in {"g1"} : Step(p)
    \/ NewLogger

SpecRestart == Init /\ [][NextRestart]_vars

\* One goroutine calling the log wrappers, Fatal among them, and Close
NextAPI ==
    \E p \in {"g1"} :
        \/ Step(p)
        \/ Fatal(p)
        \/ Exit(p)

SpecAPI == Init /\ [][NextAPI]_vars

\* One goroutine on the Logger that has Rotate
NextRotate ==
    \E p \in {"g1"} :
        \/ Step(p)
        \/ NewLoggerOpen(p)
        \/ openLogFile(p)
        \/ RotateEnter(p)
        \/ RotateLock(p)
        \/ RotateClose(p)
        \/ RotateRename(p)
        \/ RotateReturn(p)

SpecRotate == Init /\ [][NextRotate]_vars

\* The directories cleanupBackups may find: any of the base file and the
\* files matching filePath.* may be there (left by this program, an earlier
\* run or another process), with any modification times.
Directories ==
    [Names -> {NoFile} \cup {NewFile(<<>>, "no", m) : m \in 1..2}]

\* A goroutine about to call r.cleanupBackups() in a rotation, over any
\* directory
InitCleanup ==
    /\ cfg \in {c \in Config : c.FilePath # ""}
    /\ logger = [NewLoggerOf(cfg) EXCEPT !.file = "closed"]
    /\ fs \in Directories
    /\ mutex = "g1"
    /\ pc = [p \in Procs |-> IF p = "g1" THEN "cleanup" ELSE "idle"]
    /\ call = [p \in Procs |->
                 IF p = "g1"
                 THEN [id |-> 1, level |-> WARN, msg |-> <<"x">>,
                       fields |-> NoFields,
                       text |-> Format(logger.formatter, 0, WARN, <<"x">>,
                                       NoFields),
                       size |-> logger.rotator.maxSize,
                       newPath |-> BackupPath(0), cleaned |-> "no",
                       err |-> "nil", wrote |-> "no", before |-> <<>>,
                       removed |-> {}]
                 ELSE NoCall]
    /\ console = <<>>
    /\ stderr = <<>>
    /\ now = 0
    /\ mclock = 2
    /\ ncalls = 1
    /\ nloggers = 1
    /\ faults = 0
    /\ last = WARN
    /\ order = <<1>>
    /\ emitted = {}
    /\ closeRet = <<>>
    /\ rotLog = <<>>
    /\ exit = Running

\* cleanupBackups applied to each of these directories, and the rest of the
\* call
NextCleanup ==
    \E p \in {"g1"} :
        \/ Cleanup(p)
        \/ Reopen(p)
        \/ WriteFile(p)
        \/ LogReturn(p)

SpecCleanup == InitCleanup /\ [][NextCleanup]_vars

-----------------------------------------------------------------------------
(* What the claims speak of *)

maxSize == logger.rotator.maxSize
maxBackups == logger.rotator.maxBackups

\* the rotation policy the data model asks for: max size > 0
ValidPolicy == logger.logToFile => maxSize > 0

\* RotateIfNeeded rotated and returned nil in p's call
Rotated(p) ==
    /\ pc[p] \in {"write", "return"}
    /\ call[p].cleaned # "no"
    /\ call[p].err = "nil"

\* how often entry e stands in data
Occurrences(data, e) == Cardinality({i \in DOMAIN data : data[i] = e})

\* the files holding log lines: the base file and the readable backups
Readable == {n \in Names : fs[n].exists /\ fs[n].gz # "trunc"}

RECURSIVE CountIn(_, _)
CountIn(S, e) ==
    IF S = {} THEN 0
    ELSE LET n == CHOOSE m \in S : TRUE
         IN  Occurrences(fs[n].data, e) + CountIn(S \ {n}, e)

\* how often entry e stands in the base file and its backups together
InFiles(e) == CountIn(Readable, e)

\* a run of log calls alone on one Logger, with no file-system failure
PlainRun ==
    /\ faults = 0
    /\ nloggers = 1
    /\ closeRet = <<>>
    /\ \A p \in Procs : pc[p] \notin {"closelock", "closing"}
    /\ ValidPolicy

-----------------------------------------------------------------------------
(* C1 *)

\* C1: when a log call's rotation completes without error, the Logger's
\* active handle is an open handle on the fresh base file, so the call's
\* line is appended to the base file.
C1_HandleOpenAfterRotation ==
    \A p \in Procs :
        /\ (Rotated(p) /\ maxSize > 0) => logger.file = "open"
        /\ (Rotated(p) /\ maxSize > 0 /\ pc[p] = "return" /\ faults = 0) =>
              Occurrences(fs[Base].data,
                          [id |-> call[p].id, text |-> call[p].text]) = 1

-----------------------------------------------------------------------------
(* C2 *)

\* C2: every admitted log call, after any sequence of log calls (rotating
\* ones included), leaves exactly one line with its level, message and merged
\* fields in every enabled sink.
C2_OneLineInEverySink ==
    (PlainRun /\ (logger.logToFile => maxBackups >= 1)) =>
        \A e \in emitted :
            /\ logger.logToConsole => Occurrences(console, e) = 1
            /\ logger.logToFile => InFiles(e) = 1

-----------------------------------------------------------------------------
(* C3 *)

\* C3: a log call whose level is below the configured minimum changes
\* nothing: no lock, no formatting, no console or file write, no rotation.
C3_RejectedCallChangesNothing ==
    [][(last' # last /\ last' < logger.level) =>
          UNCHANGED <<cfg, exit, logger, fs, mutex, pc, call, console, stderr, now,
                      mclock, ncalls, nloggers, faults, order, emitted,
                      closeRet, rotLog>>]_vars

\* a call below the minimum was made after an admitted one had written
C3_Witness ==
    /\ last # NoLevel
    /\ last < logger.level
    /\ emitted # {}
    /\ logger.logToFile /\ fs[Base].data # <<>>

-----------------------------------------------------------------------------
(* C4 *)

AllIdle == \A p \in Procs : pc[p] = "idle"

RECURSIVE TextSize(_)
TextSize(S) ==
    IF S = {} THEN 0
    ELSE LET e == CHOOSE x \in S : TRUE
         IN  Len(e.text) + TextSize(S \ {e})

\* C4 as stated: once the lines of the admitted calls add up to more than
\* maxSize, a backup file exists.
C4_BackupOnceSizeExceeded ==
    (PlainRun /\ logger.logToFile /\ AllIdle /\ TextSize(emitted) > maxSize)
    => Glob(fs) # {}

\* C4, amended: with maxSize > 0 and maxBackups >= 1, a log call that finds
\* the live file at size >= maxSize and meets no error leaves a backup file
\* and, right after its write, a live file smaller than maxSize; and once a
\* rotation has completed a backup file exists from then on.
C4_RotationLeavesBackup ==
    (logger.logToFile /\ maxSize > 0 /\ maxBackups >= 1) =>
        /\ \A p \in Procs :
              (pc[p] = "return" /\ call[p].size >= maxSize /\ call[p].err = "nil")
              => /\ Glob(fs) # {}
                 /\ fs[Base].exists
                 /\ Size(fs[Base]) < maxSize
        /\ rotLog # <<>> => Glob(fs) # {}

\* a call found the file full, rotated it and wrote
C4_Witness ==
    /\ logger.logToFile /\ maxSize > 0 /\ maxBackups >= 1
    /\ \E p \in Procs :
          /\ pc[p] = "return"
          /\ call[p].size >= maxSize
          /\ call[p].err = "nil"
          /\ fs[call[p].newPath].exists

-----------------------------------------------------------------------------
(* C5 *)

-----------------------------------------------------------------------------
(* C6 *)

InRotation(p) == pc[p] \in {"close", "rename", "compress", "cleanup", "reopen"}

\* the backups of the n latest rotations
Latest(n) == {rotLog[i].path : i \in (Len(rotLog) - n + 1)..Len(rotLog)}

\* the rotations happened in different seconds
DistinctSeconds ==
    \A i, j \in DOMAIN rotLog : i # j => rotLog[i].at # rotLog[j].at

-----------------------------------------------------------------------------
(* C7 *)

RECURSIVE LineCount(_)
LineCount(S) ==
    IF S = {} THEN 0
    ELSE LET n == CHOOSE m \in S : TRUE
         IN  Len(fs[n].data) + LineCount(S \ {n})

\* C7: once the concurrent callers have made their admitted log calls, the
\* log file (its backups counted in) holds exactly one whole line per call.
C7_OneLinePerCall ==
    (PlainRun /\ logger.logToFile /\ maxBackups >= 1 /\ AllIdle)
    => /\ LineCount(Readable) = ncalls
       /\ \A e \in emitted : InFiles(e) = 1

-----------------------------------------------------------------------------
(* C8 *)

\* where call id stands in the order of lock acquisitions
Position(id) == CHOOSE i \in DOMAIN order : order[i] = id

\* C8: the lines of a file stand in the order in which their calls took the
\* Logger's mutex.
C8_FileOrderIsLockOrder ==
    \A n \in Names :
        fs[n].exists =>
            \A i, j \in DOMAIN fs[n].data :
                i < j => Position(fs[n].data[i].id) < Position(fs[n].data[j].id)

\* the goroutine that called second took the mutex first, and wrote first
C8_Witness ==
    /\ order = <<2, 1>>
    /\ fs[Base].exists
    /\ Len(fs[Base].data) = 2
    /\ fs[Base].data[1].id = 2

-----------------------------------------------------------------------------
(* C9 *)

\* C9: a second Close returns no error (as does Close with no file open).
C9_SecondCloseReturnsNil ==
    (faults = 0 /\ ValidPolicy) =>
        \A i \in DOMAIN closeRet : i >= 2 => closeRet[i] = "nil"

-----------------------------------------------------------------------------
(* C10 *)

\* the places of a goroutine that holds the mutex
Inside ==
    {"stat", "close", "rename", "compress", "cleanup", "reopen", "write",
     "return", "closing"}

\* C10: whatever step fails, a call that has returned has released the
\* mutex: the mutex is held only by a goroutine still inside log or Close,
\* so a later log or Close call can take it.
C10_MutexReleasedOnReturn ==
    /\ \A p \in Procs : pc[p] \notin Inside => mutex # p
    /\ mutex # NoHolder => pc[mutex] \in Inside

\* after a failure was reported and its call returned, a later call holds
\* the mutex
C10_Witness ==
    /\ stderr # <<>>
    /\ faults >= 1
    /\ emitted # {}
    /\ mutex # NoHolder
    /\ \A p \in Procs : p # mutex => pc[p] = "idle"

-----------------------------------------------------------------------------
(* C11 *)

\* the line of p's current call
Line(p) == [id |-> call[p].id, text |-> call[p].text]

\* C11: once the process has exited, it has done so with a non-zero status
\* from a Fatal call whose log had returned: the call's line stands on the
\* console (when enabled), its file write was attempted (when file output is
\* enabled), and the call no longer holds the mutex.
C11_ExitAfterWriteAttempt ==
    exit # Running =>
        /\ exit[1] # 0
        /\ \E p \in Procs :
              /\ pc[p] = "exited"
              /\ call[p].level = FATAL
              /\ mutex # p
              /\ Line(p) \in emitted
              /\ logger.logToConsole => Occurrences(console, Line(p)) = 1
              /\ logger.logToFile => call[p].wrote # "no"

\* the process exited after a Fatal call printed and wrote its line
C11_Witness ==
    /\ exit = <<1>>
    /\ logger.logToConsole /\ logger.logToFile
    /\ \E p \in Procs :
          /\ pc[p] = "exited"
          /\ call[p].wrote = "ok"
          /\ Occurrences(fs[Base].data, Line(p)) = 1

-----------------------------------------------------------------------------
(* C12 *)

\* C12: a Rotate call that has closed and renamed the file goes on to open
\* the fresh file and return: the mutex openLogFile locks is free for it.
C12_RotateReturns ==
    \A p \in Procs : pc[p] = "rotopen" => MutexFree

-----------------------------------------------------------------------------
(* C13 *)

\* C13: the backup a completed rotation has produced holds exactly what the
\* base file held before the rotation: as it is without compression, as a
\* complete gzip stream of it with compression.
C13_BackupHoldsContent ==
    \A p \in Procs :
        (Rotated(p) /\ ValidPolicy /\ fs[call[p].newPath].exists) =>
            /\ fs[call[p].newPath].data = call[p].before
            /\ fs[call[p].newPath].gz =
                  (IF logger.rotator.compress THEN "ok" ELSE "no")

-----------------------------------------------------------------------------
(* C14 *)

\* no Close call was made on the Logger
NeverClosed ==
    /\ closeRet = <<>>
    /\ \A p \in Procs : pc[p] \notin {"closelock", "closing"}

\* C14: whenever no rotation is in progress, a Logger with file output has
\* one file at the base path and an open handle on it; one without leaves no
\* file at the base path. (Stated for the runs without any I/O failure, which
\* the claim includes.)
C14_OneOpenBaseFile ==
    (PlainRun /\ \A p \in Procs : ~InRotation(p)) =>
        IF logger.logToFile
        THEN fs[Base].exists /\ logger.file = "open"
        ELSE ~fs[Base].exists

-----------------------------------------------------------------------------
(* C15 *)

\* C15: with MaxSizeMB <= 0 no log call closes, renames, compresses or
\* deletes a file.
C15_NoRotationWithoutMaxSize ==
    (logger.logToFile /\ maxSize <= 0) =>
        /\ \A p \in Procs : ~InRotation(p)
        /\ logger.file # "closed" \/ ~NeverClosed
        /\ Glob(fs) = {}

-----------------------------------------------------------------------------
(* C16 *)

\* the uncompressed backup of the rotation p is in
Plain(p) == BackupPath(call[p].newPath[2])

\* C16: past the compression step of a rotation, either the compressed copy
\* is complete, or the uncompressed backup is still there with all its
\* content and the failure was reported on stderr.
C16_OriginalKeptUnlessCompressed ==
    \A p \in Procs :
        (pc[p] \in {"cleanup", "write", "return"} /\ ValidPolicy
            /\ call[p].newPath # <<>> /\ logger.rotator.compress
            /\ (pc[p] = "cleanup" \/ call[p].err = "failed to compress log file"))
        => \/ /\ fs[GzPath(Plain(p))].exists
              /\ fs[GzPath(Plain(p))].gz = "ok"
              /\ fs[GzPath(Plain(p))].data = call[p].before
           \/ /\ fs[Plain(p)].exists
              /\ fs[Plain(p)].data = call[p].before
              /\ \E i \in DOMAIN stderr :
                    stderr[i][2] = "failed to compress log file"

-----------------------------------------------------------------------------
(* C17 *)

\* C17: a log call whose stat failed in RotateIfNeeded has closed, renamed or
\* deleted nothing, has had the failure reported on stderr, and has written
\* its line to the file all the same. (Stated for the runs in which no
\* other file-system call has failed, and no Close was called.)
C17_LineWrittenAfterStatFailure ==
    \A p \in Procs :
        (pc[p] = "return" /\ call[p].err = "failed to stat log file"
            /\ NeverClosed /\ call[p].wrote # "failed"
            /\ Len(stderr) = 1)
        => /\ call[p].newPath = <<>> /\ call[p].cleaned = "no"
           /\ \E i \in DOMAIN stderr : stderr[i][2] = "failed to stat log file"
           /\ Occurrences(fs[Base].data, Line(p)) = 1

-----------------------------------------------------------------------------
(* C18 *)

\* C18: a RotateIfNeeded whose stat finds the live file below maxSize returns
\* with the handle, the base file, the backups and stderr as they were, and
\* the call goes on to its write; one that finds size >= maxSize rotates.
C18_NoOpBelowMaxSize ==
    [][\A p \in Procs :
          (pc[p] = "stat" /\ pc'[p] \in {"write", "close"}
              /\ call'[p].err = "nil")
          => /\ call'[p].size = Size(fs[Base])
             /\ IF Size(fs[Base]) < maxSize
                THEN /\ pc'[p] = "write"
                     /\ logger' = logger /\ logger.file = "open"
                     /\ fs' = fs
                     /\ stderr' = stderr
                ELSE pc'[p] = "close"]_vars

\* a call found the live file below maxSize and went on to write to it
C18_Witness ==
    /\ logger.logToFile /\ logger.file = "open"
    /\ \E p \in Procs :
          /\ pc[p] = "return"
          /\ call[p].size >= 0 /\ call[p].size < maxSize
          /\ call[p].err = "nil" /\ call[p].cleaned = "no"
          /\ call[p].wrote = "ok"

-----------------------------------------------------------------------------
(* C19 *)

\* C19: at most one goroutine is inside the format/rotate/write section of
\* log or inside Close, and it holds the mutex: nobody stats or writes the
\* handle while another is between close and reopen or is closing it.
C19_OneCallerInside ==
    /\ Cardinality({p \in Procs : pc[p] \in Inside}) <= 1
    /\ \A p \in Procs : pc[p] \in Inside => mutex = p

\* one goroutine waits for the mutex while the other is between the close
\* and the reopen of a rotation
C19_Witness ==
    \E p, q \in Procs :
        /\ pc[p] \in {"rename", "compress", "cleanup", "reopen"}
        /\ pc[q] \in {"lock", "closelock"}

-----------------------------------------------------------------------------
(* C20 *)

\* the calls that are past the console step of log
Printed ==
    {Line(p) : p \in {q \in Procs : pc[q] \in Inside \ {"closing"}}}
        \cup emitted

\* C20: with console output enabled every admitted call's line is printed
\* once, whatever becomes of its rotation and file write; with FilePath empty
\* no file exists and no call reaches the rotation or the write; with console
\* output disabled nothing is printed, and the file write is still made.
C20_IndependentSinks ==
    /\ logger.logToConsole =>
          \A e \in Printed : Occurrences(console, e) = 1
    /\ ~logger.logToFile =>
          /\ \A n \in Names : ~fs[n].exists
          /\ \A p \in Procs : pc[p] \notin {"stat", "write"} /\ ~InRotation(p)
          /\ logger.file = "nil"
    /\ ~logger.logToConsole =>
          /\ console = <<>>
          /\ logger.logToFile =>
                \A p \in Procs : pc[p] = "return" => call[p].wrote # "no"

\* a call printed its line although its rotation failed and its handle was
\* closed
C20_Witness ==
    /\ logger.logToConsole /\ logger.logToFile
    /\ \E p \in Procs :
          /\ pc[p] = "return"
          /\ call[p].err # "nil"
          /\ call[p].wrote = "closed"
          /\ Occurrences(console, Line(p)) = 1

-----------------------------------------------------------------------------
(* C21 *)

\* C21: with maxSize > 0, one Logger and no failing I/O step, when a log
\* call is about to return the file at the base path is smaller than maxSize
\* plus the length of that call's line.
C21_OvershootByOneLine ==
    \A p \in Procs :
        (PlainRun /\ logger.logToFile /\ pc[p] = "return" /\ fs[Base].exists)
        => Size(fs[Base]) < maxSize + Len(call[p].text)

\* a call wrote a line that took the live file to maxSize or past it
C21_Witness ==
    /\ PlainRun /\ logger.logToFile
    /\ \E p \in Procs :
          /\ pc[p] = "return"
          /\ call[p].wrote = "ok"
          /\ Size(fs[Base]) >= maxSize

-----------------------------------------------------------------------------
(* C22 *)

\* C22: cleanupBackups leaves the file at the base path as it is, changes
\* nothing when at most maxBackups files match filePath.*, and otherwise
\* only removes files matching filePath.*
C22_CleanupFrame ==
    [][\A p \in Procs :
          (pc[p] = "cleanup" /\ pc'[p] = "reopen")
          => /\ fs'[Base] = fs[Base]
             /\ Cardinality({n \in BackupNames : fs[n].exists}) <= maxBackups
                   => fs' = fs
             /\ \A n \in Names :
                   fs'[n] # fs[n] => n \in BackupNames /\ ~fs'[n].exists]_vars

\* cleanupBackups has removed backups next to a base file that is there, and
\* kept maxBackups of them
C22_Witness ==
    /\ \E p \in Procs :
          /\ pc[p] = "reopen"
          /\ call[p].cleaned = "yes"
          /\ call[p].removed # {}
    /\ fs[Base].exists
    /\ maxBackups = 1
    /\ Cardinality(Glob(fs)) = 1

====
